---- MODULE Spec2Model ----
(***************************************************************************)
(* Amortization engine of the loan prepayment calculator                   *)
(* (src/utils/calculations.ts).                                            *)
(*                                                                         *)
(* Numbers.  The program computes on IEEE doubles.  The model computes on  *)
(* exact rationals [n |-> numerator, d |-> denominator > 0] in lowest      *)
(* terms, i.e. the real-number semantics of every expression of the source *)
(* without rounding error.  Math.pow is modelled for whole exponents only, *)
(* so compound-interest runs (rate # 0) are drawn with whole-month         *)
(* tenures; fractional-month tenures are drawn at rate 0, where the source *)
(* never calls Math.pow.                                                   *)
(***************************************************************************)
EXTENDS Integers, Sequences, FiniteSets, TLC

(***************************************************************************)
(* Exact rational arithmetic (the model of the JavaScript number type).    *)
(***************************************************************************)
RECURSIVE GCD(_, _)
GCD(a, b) == IF b = 0 THEN a ELSE GCD(b, a % b)

Abs(x) == IF x < 0 THEN -x ELSE x

Norm(n, d) ==
    LET s == IF d < 0 THEN -1 ELSE 1
        g == GCD(Abs(n), Abs(d))
    IN  [n |-> (s * n) \div g, d |-> (s * d) \div g]

R(n, d) == Norm(n, d)

Zero == [n |-> 0, d |-> 1]

One == [n |-> 1, d |-> 1]

RAdd(a, b) ==
    LET g == GCD(a.d, b.d)
    IN  Norm(a.n * (b.d \div g) + b.n * (a.d \div g), (a.d \div g) * b.d)

RNeg(a) == [n |-> -a.n, d |-> a.d]

RSub(a, b) == RAdd(a, RNeg(b))

RMul(a, b) ==
    LET g1 == GCD(Abs(a.n), b.d)
        g2 == GCD(Abs(b.n), a.d)
    IN  IF a.n = 0 \/ b.n = 0 THEN Zero
        ELSE Norm((a.n \div g1) * (b.n \div g2), (a.d \div g2) * (b.d \div g1))

\* a / b for b # 0 (every division of the source modelled here has b # 0)
RDiv(a, b) == RMul(a, Norm(b.d, b.n))

\* a < b, compared over the least common denominator
RLt(a, b) ==
    LET g == GCD(a.d, b.d)
    IN  a.n * (b.d \div g) < b.n * (a.d \div g)

RLe(a, b) ==
    LET g == GCD(a.d, b.d)
    IN  a.n * (b.d \div g) <= b.n * (a.d \div g)

RMin(a, b) == IF RLe(a, b) THEN a ELSE b

RMax(a, b) == IF RLe(b, a) THEN a ELSE b

\* Math.floor
RFloor(a) == a.n \div a.d

\* Math.ceil
RCeil(a) == -((-a.n) \div a.d)

\* Math.round: the nearest integer, halves rounded up
RRound(a) == RFloor(RAdd(a, R(1, 2)))

IsWhole(a) == a.d = 1

\* Math.pow(q, k) for a whole exponent k >= 0
RECURSIVE RPow(_, _)
RPow(q, k) == IF k = 0 THEN One ELSE RMul(q, RPow(q, k - 1))

IMax(a, b) == IF a >= b THEN a ELSE b

IMin(a, b) == IF a <= b THEN a ELSE b

(***************************************************************************)
(* Program constants.                                                      *)
(***************************************************************************)
\* "Safety cap at 50 years (600 months)"
SafetyCapMonths == 600

\* the loop's epsilon 0.01 = 1 / EpsilonInverse
EpsilonInverse == 100

Epsilon == R(1, EpsilonInverse)

(***************************************************************************)
(* calculations.ts: the installment formulas.                              *)
(***************************************************************************)
\* annualInterestRate / 12 / 100
MonthlyRate(annualInterestRate) == RDiv(RDiv(annualInterestRate, R(12, 1)), R(100, 1))

\* p * monthlyRate * pow(1 + monthlyRate, k) / (pow(1 + monthlyRate, k) - 1), whole k
Annuity(p, monthlyRate, k) ==
    LET pw == RPow(RAdd(One, monthlyRate), k)
    IN  RDiv(RMul(RMul(p, monthlyRate), pw), RSub(pw, One))

\* mutant: the zero-rate installment divides by the rounded number of months
CalculateEmi_RoundedMonths(p, r, n) ==
    IF RLe(p, Zero) \/ RLe(n, Zero) THEN Zero
    ELSE LET monthlyRate == MonthlyRate(r)
             numMonths == RMul(n, R(12, 1))
         IN  IF monthlyRate = Zero THEN RDiv(p, R(IMax(1, RRound(numMonths)), 1))
             ELSE Annuity(p, monthlyRate, numMonths.n)

\* calculateEmi(p, r, n): r the annual rate in percent, n the tenure in years
CalculateEmi(p, r, n) ==
    IF RLe(p, Zero) \/ RLe(n, Zero) THEN Zero
    ELSE LET monthlyRate == MonthlyRate(r)
             numMonths == RMul(n, R(12, 1))
         IN  IF monthlyRate = Zero THEN RDiv(p, numMonths)
             ELSE Annuity(p, monthlyRate, numMonths.n)

\* calculateEmiForMonths(p, r, months): months a whole number
CalculateEmiForMonths(p, r, months) ==
    IF RLe(p, Zero) \/ months <= 0 THEN Zero
    ELSE LET monthlyRate == MonthlyRate(r)
         IN  IF monthlyRate = Zero THEN RDiv(p, R(months, 1))
             ELSE Annuity(p, monthlyRate, months)

(***************************************************************************)
(* generateSchedule: the values computed once, before the loop.            *)
(***************************************************************************)
\* Math.max(0, Math.round(tenureYears * 12))
TotalMonths(inputs) == IMax(0, RRound(RMul(inputs.tenureYears, R(12, 1))))

\* calculateEmi(principal, annualInterestRate, tenureYears)
StandardEmi(inputs) ==
    CalculateEmi(inputs.principal, inputs.annualInterestRate, inputs.tenureYears)

\* mutant: only the safety cap bounds the loop
MaxMonths_CapOnly(inputs) == SafetyCapMonths

\* Math.min(600, totalMonths || 600)
MaxMonths(inputs) ==
    IMin(SafetyCapMonths,
         IF TotalMonths(inputs) = 0 THEN SafetyCapMonths ELSE TotalMonths(inputs))

\* mutant: the loop runs one month past maxMonths
LoopCondition_OnePast(inputs, balance, month) ==
    RLt(Epsilon, balance) /\ month <= MaxMonths(inputs) + 1

\* the while condition: balance > 0.01 && month <= maxMonths
LoopCondition(inputs, balance, month) ==
    RLt(Epsilon, balance) /\ month <= MaxMonths(inputs)

(***************************************************************************)
(* generateSchedule: one iteration of the loop.                            *)
(***************************************************************************)
\* mutant: the remaining months do not count the current month
RemainingMonths_OneShort(inputs, month) == IMax(1, TotalMonths(inputs) - month)

\* Math.max(1, totalMonths - month + 1)
RemainingMonths(inputs, month) == IMax(1, TotalMonths(inputs) - month + 1)

\* mutant: the entry is looked up by the number of the year, counted from 1
YearlyAmount_ByYearNumber(yearlyPrepayments, yearIndex) ==
    IF yearIndex \in DOMAIN yearlyPrepayments
    THEN yearlyPrepayments[yearIndex] ELSE Zero

\* yearlyPrepayments?.[yearIndex] ?? 0   (yearIndex counts from 0)
YearlyAmount(yearlyPrepayments, yearIndex) ==
    IF yearIndex + 1 \in DOMAIN yearlyPrepayments
    THEN yearlyPrepayments[yearIndex + 1] ELSE Zero

\* mutant: the sources are added up first and the sum is clamped at 0
ExtraPayment_SumClamped(inputs, usePrepayments, month) ==
    IF ~usePrepayments THEN Zero
    ELSE LET lump == IF inputs.prepaymentFrequency > 0
                        /\ month % inputs.prepaymentFrequency = 0
                     THEN inputs.lumpsumAmount ELSE Zero
             timing == inputs.prepaymentTiming
             yearly == IF (timing = "start" /\ month % 12 = 1)
                          \/ (timing = "end" /\ month % 12 = 0)
                       THEN YearlyAmount(inputs.yearlyPrepayments, (month - 1) \div 12)
                       ELSE Zero
         IN  RMax(Zero, RAdd(RAdd(inputs.monthlyExtraPayment, lump), yearly))

\* the extra payment requested in this month
ExtraPayment(inputs, usePrepayments, month) ==
    IF ~usePrepayments THEN Zero
    ELSE LET monthly == RMax(Zero, inputs.monthlyExtraPayment)
             lump == IF inputs.prepaymentFrequency > 0
                        /\ month % inputs.prepaymentFrequency = 0
                     THEN RMax(Zero, inputs.lumpsumAmount) ELSE Zero
             isYearStart == month % 12 = 1
             isYearEnd == month % 12 = 0
             applyYearlyAtStart == inputs.prepaymentTiming = "start" /\ isYearStart
             applyYearlyAtEnd == inputs.prepaymentTiming = "end" /\ isYearEnd
             yearly == IF applyYearlyAtStart \/ applyYearlyAtEnd
                       THEN RMax(Zero, YearlyAmount(inputs.yearlyPrepayments,
                                                    (month - 1) \div 12))
                       ELSE Zero
         IN  RAdd(RAdd(monthly, lump), yearly)

\* the extra applied before interest accrues ("start" timing)
AppliedAtStart(inputs, usePrepayments, beginningBalance, extraPayment) ==
    IF usePrepayments /\ inputs.prepaymentTiming = "start" /\ RLt(Zero, extraPayment)
    THEN RMin(beginningBalance, extraPayment) ELSE Zero

\* mutant: the custom EMI is used whether or not prepayments are active
SelectEmi_CustomAlways(inputs, usePrepayments, balanceAfterPrepay, month) ==
    LET standard == StandardEmi(inputs)
        recomputed == IF usePrepayments /\ inputs.prepaymentMode = "reduce-emi"
                      THEN CalculateEmiForMonths(balanceAfterPrepay,
                                                 inputs.annualInterestRate,
                                                 RemainingMonths(inputs, month))
                      ELSE standard
    IN  IF RLt(Zero, inputs.customEmi) THEN inputs.customEmi ELSE recomputed

\* mutant: reduce-emi mode recomputes the installment from the original
\* principal instead of the outstanding balance
SelectEmi_FromPrincipal(inputs, usePrepayments, balanceAfterPrepay, month) ==
    LET standard == StandardEmi(inputs)
        recomputed == IF usePrepayments /\ inputs.prepaymentMode = "reduce-emi"
                      THEN CalculateEmiForMonths(inputs.principal,
                                                 inputs.annualInterestRate,
                                                 RemainingMonths(inputs, month))
                      ELSE standard
    IN  IF usePrepayments /\ RLt(Zero, inputs.customEmi) THEN inputs.customEmi
        ELSE recomputed

\* mutant: the installment is recomputed every month whatever the mode
SelectEmi_ModeIgnored(inputs, usePrepayments, balanceAfterPrepay, month) ==
    LET standard == StandardEmi(inputs)
        recomputed == IF usePrepayments
                      THEN CalculateEmiForMonths(balanceAfterPrepay,
                                                 inputs.annualInterestRate,
                                                 RemainingMonths(inputs, month))
                      ELSE standard
    IN  IF usePrepayments /\ RLt(Zero, inputs.customEmi) THEN inputs.customEmi
        ELSE recomputed

\* mutant: in reduce-emi mode the recomputed installment wins over a custom EMI
SelectEmi_RecomputeWins(inputs, usePrepayments, balanceAfterPrepay, month) ==
    LET standard == StandardEmi(inputs)
        custom == IF usePrepayments /\ RLt(Zero, inputs.customEmi)
                  THEN inputs.customEmi ELSE standard
    IN  IF usePrepayments /\ inputs.prepaymentMode = "reduce-emi"
        THEN CalculateEmiForMonths(balanceAfterPrepay, inputs.annualInterestRate,
                                   RemainingMonths(inputs, month))
        ELSE custom

\* the installment before the final-period guard: the standard EMI, recomputed
\* in reduce-emi mode, overridden by a custom EMI
SelectEmi(inputs, usePrepayments, balanceAfterPrepay, month) ==
    LET standard == StandardEmi(inputs)
        recomputed == IF usePrepayments /\ inputs.prepaymentMode = "reduce-emi"
                      THEN CalculateEmiForMonths(balanceAfterPrepay,
                                                 inputs.annualInterestRate,
                                                 RemainingMonths(inputs, month))
                      ELSE standard
    IN  IF usePrepayments /\ RLt(Zero, inputs.customEmi) THEN inputs.customEmi
        ELSE recomputed

\* mutant: the installment is charged in full in the last period too
CapEmi_Uncapped(balanceAfterPrepay, interest, emi) == emi

\* "Monthly payment is EMI, but shouldn't exceed (balance + interest)"
CapEmi(balanceAfterPrepay, interest, emi) == RMin(RAdd(balanceAfterPrepay, interest), emi)

\* mutant: a closing balance within the epsilon of the loop is recorded as 0
EndingBalance_EpsilonIsZero(balance) ==
    IF RLe(balance, Epsilon) THEN Zero ELSE balance

\* mutant: the closing balance is rounded to whole currency units for display
EndingBalance_Rounded(balance) == R(RRound(RMax(Zero, balance)), 1)

\* endingBalance: Math.max(0, balance)
EndingBalance(balance) == RMax(Zero, balance)

\* mutant: the installment is not capped at balance + interest and the closing
\* balance is not clamped, so the last installment overpays
LoopBody_Overpay(inputs, usePrepayments, month, balance) ==
    LET extraPayment == ExtraPayment(inputs, usePrepayments, month)
        atStart == AppliedAtStart(inputs, usePrepayments, balance, extraPayment)
        afterPrepay == RSub(balance, atStart)
        interest == RMul(afterPrepay, MonthlyRate(inputs.annualInterestRate))
        emi == SelectEmi(inputs, usePrepayments, afterPrepay, month)
        principalPaid == RSub(emi, interest)
        atEnd == usePrepayments /\ inputs.prepaymentTiming = "end"
                 /\ RLt(Zero, extraPayment)
        appliedExtra == IF atEnd THEN extraPayment ELSE atStart
        newBalance == IF atEnd THEN RSub(RSub(afterPrepay, principalPaid), appliedExtra)
                      ELSE RSub(afterPrepay, principalPaid)
    IN  [row |-> [month |-> month,
                  year |-> RCeil(R(month, 12)),
                  beginningBalance |-> balance,
                  emi |-> emi,
                  interest |-> interest,
                  principalPaid |-> principalPaid,
                  lumpsum |-> appliedExtra,
                  totalPaidThisMonth |-> RAdd(emi, appliedExtra),
                  endingBalance |-> newBalance],
         balance |-> newBalance]

\* mutant: under "start" timing the interest is computed on the opening
\* balance, before the extra is deducted
LoopBody_InterestOnOpening(inputs, usePrepayments, month, balance) ==
    LET beginningBalance == balance
        extraPayment == ExtraPayment(inputs, usePrepayments, month)
        atStart == AppliedAtStart(inputs, usePrepayments, beginningBalance, extraPayment)
        afterPrepay == RSub(beginningBalance, atStart)
        interest == RMul(beginningBalance, MonthlyRate(inputs.annualInterestRate))
        emi == CapEmi(afterPrepay, interest,
                      SelectEmi(inputs, usePrepayments, afterPrepay, month))
        principalPaid == RSub(emi, interest)
        atEnd == usePrepayments /\ inputs.prepaymentTiming = "end"
                 /\ RLt(Zero, extraPayment)
        remainingAfterEmi == RMax(Zero, RSub(afterPrepay, principalPaid))
        appliedExtra == IF atEnd THEN RMin(remainingAfterEmi, extraPayment) ELSE atStart
        newBalance == IF atEnd THEN RSub(remainingAfterEmi, appliedExtra)
                      ELSE RSub(afterPrepay, principalPaid)
    IN  [row |-> [month |-> month,
                  year |-> RCeil(R(month, 12)),
                  beginningBalance |-> beginningBalance,
                  emi |-> emi,
                  interest |-> interest,
                  principalPaid |-> principalPaid,
                  lumpsum |-> appliedExtra,
                  totalPaidThisMonth |-> RAdd(emi, appliedExtra),
                  endingBalance |-> EndingBalance(newBalance)],
         balance |-> newBalance]

\* mutant: under "end" timing the extra is limited by the opening balance
\* instead of the balance the installment leaves
LoopBody_ClampAtOpening(inputs, usePrepayments, month, balance) ==
    LET beginningBalance == balance
        extraPayment == ExtraPayment(inputs, usePrepayments, month)
        atStart == AppliedAtStart(inputs, usePrepayments, beginningBalance, extraPayment)
        afterPrepay == RSub(beginningBalance, atStart)
        interest == RMul(afterPrepay, MonthlyRate(inputs.annualInterestRate))
        emi == CapEmi(afterPrepay, interest,
                      SelectEmi(inputs, usePrepayments, afterPrepay, month))
        principalPaid == RSub(emi, interest)
        atEnd == usePrepayments /\ inputs.prepaymentTiming = "end"
                 /\ RLt(Zero, extraPayment)
        remainingAfterEmi == RMax(Zero, RSub(afterPrepay, principalPaid))
        appliedExtra == IF atEnd THEN RMin(beginningBalance, extraPayment) ELSE atStart
        newBalance == IF atEnd THEN RSub(remainingAfterEmi, appliedExtra)
                      ELSE RSub(afterPrepay, principalPaid)
    IN  [row |-> [month |-> month,
                  year |-> RCeil(R(month, 12)),
                  beginningBalance |-> beginningBalance,
                  emi |-> emi,
                  interest |-> interest,
                  principalPaid |-> principalPaid,
                  lumpsum |-> appliedExtra,
                  totalPaidThisMonth |-> RAdd(emi, appliedExtra),
                  endingBalance |-> EndingBalance(newBalance)],
         balance |-> newBalance]

\* The body of the while loop for the given month and running balance:
\* the row pushed and the balance carried to the next iteration.
LoopBody(inputs, usePrepayments, month, balance) ==
    LET beginningBalance == balance
        extraPayment == ExtraPayment(inputs, usePrepayments, month)
        atStart == AppliedAtStart(inputs, usePrepayments, beginningBalance, extraPayment)
        afterPrepay == RSub(beginningBalance, atStart)
        interest == RMul(afterPrepay, MonthlyRate(inputs.annualInterestRate))
        emi == CapEmi(afterPrepay, interest,
                      SelectEmi(inputs, usePrepayments, afterPrepay, month))
        principalPaid == RSub(emi, interest)
        atEnd == usePrepayments /\ inputs.prepaymentTiming = "end"
                 /\ RLt(Zero, extraPayment)
        remainingAfterEmi == RMax(Zero, RSub(afterPrepay, principalPaid))
        appliedExtra == IF atEnd THEN RMin(remainingAfterEmi, extraPayment) ELSE atStart
        newBalance == IF atEnd THEN RSub(remainingAfterEmi, appliedExtra)
                      ELSE RSub(afterPrepay, principalPaid)
    IN  [row |-> [month |-> month,
                  year |-> RCeil(R(month, 12)),
                  beginningBalance |-> beginningBalance,
                  emi |-> emi,
                  interest |-> interest,
                  principalPaid |-> principalPaid,
                  lumpsum |-> appliedExtra,
                  totalPaidThisMonth |-> RAdd(emi, appliedExtra),
                  endingBalance |-> EndingBalance(newBalance)],
         balance |-> newBalance]

(***************************************************************************)
(* validateInputs: the warnings, in the order they are pushed.  A warning  *)
(* is the tuple of its text and, for the custom EMI warning, the amount    *)
(* Math.ceil(minEmi) printed in it.                                        *)
(***************************************************************************)
Warn(cond, warning) == IF cond THEN <<warning>> ELSE <<>>

\* mutant: a custom EMI equal to the monthly interest is accepted
ValidateInputs_StrictCustom(inputs) ==
    LET minEmi == RMul(inputs.principal, MonthlyRate(inputs.annualInterestRate))
    IN  Warn(RLe(inputs.principal, Zero), <<"Loan amount must be positive.">>)
        \o Warn(RLt(inputs.annualInterestRate, Zero),
                <<"Interest rate cannot be negative.">>)
        \o Warn(RLt(R(50, 1), inputs.annualInterestRate),
                <<"Interest rate seems unrealistically high (>50%).">>)
        \o Warn(RLe(inputs.tenureYears, Zero), <<"Tenure must be at least 1 year.">>)
        \o Warn(RLt(R(40, 1), inputs.tenureYears), <<"Tenure exceeds 40 years.">>)
        \o Warn(RLt(inputs.lumpsumAmount, Zero),
                <<"Lump sum amount cannot be negative.">>)
        \o Warn(RLt(inputs.monthlyExtraPayment, Zero),
                <<"Monthly extra payment cannot be negative.">>)
        \o Warn(RLt(inputs.customEmi, Zero), <<"Custom EMI cannot be negative.">>)
        \o Warn(RLt(Zero, inputs.customEmi) /\ RLt(inputs.customEmi, minEmi),
                <<"Custom EMI must exceed monthly interest to reduce principal.",
                  RCeil(minEmi)>>)

ValidateInputs(inputs) ==
    LET minEmi == RMul(inputs.principal, MonthlyRate(inputs.annualInterestRate))
    IN  Warn(RLe(inputs.principal, Zero), <<"Loan amount must be positive.">>)
        \o Warn(RLt(inputs.annualInterestRate, Zero),
                <<"Interest rate cannot be negative.">>)
        \o Warn(RLt(R(50, 1), inputs.annualInterestRate),
                <<"Interest rate seems unrealistically high (>50%).">>)
        \o Warn(RLe(inputs.tenureYears, Zero), <<"Tenure must be at least 1 year.">>)
        \o Warn(RLt(R(40, 1), inputs.tenureYears), <<"Tenure exceeds 40 years.">>)
        \o Warn(RLt(inputs.lumpsumAmount, Zero),
                <<"Lump sum amount cannot be negative.">>)
        \o Warn(RLt(inputs.monthlyExtraPayment, Zero),
                <<"Monthly extra payment cannot be negative.">>)
        \o Warn(RLt(inputs.customEmi, Zero), <<"Custom EMI cannot be negative.">>)
        \o Warn(RLt(Zero, inputs.customEmi) /\ RLe(inputs.customEmi, minEmi),
                <<"Custom EMI must exceed monthly interest to reduce principal.",
                  RCeil(minEmi)>>)

(***************************************************************************)
(* The inputs the model draws.                                             *)
(***************************************************************************)
\* principals are multiples of PrincipalUnit, up to MaxPrincipal units
MaxPrincipal == 2

PrincipalUnit == R(50, 1)

\* extra amounts are multiples of ExtraUnit, up to MaxExtra units
MaxExtra == 1

ExtraUnit == R(20, 1)

\* compound-interest runs have whole tenures of 1 .. MaxCompoundMonths months
MaxCompoundMonths == 2

\* a negative and a zero principal, one of a few cents, and the multiples of the unit
Principals ==
    {R(-50, 1), R(1, 100), R(1, 20)}
        \cup {RMul(R(k, 1), PrincipalUnit) : k \in 0 .. MaxPrincipal}

\* annual rates, in percent: 48% is a monthly rate of 1/25
CompoundRate == R(48, 1)

\* tenures, in years, drawn at rate 0: 0.4, 1, 2.4, 3.6 and 12 months
SimpleTenures == {R(1, 30), R(1, 12), R(1, 5), R(3, 10), R(1, 1)}

CompoundTenures == {R(k, 12) : k \in 1 .. MaxCompoundMonths}

\* zero and negative tenures
DegenerateTenures == {Zero, R(-1, 12)}

ExtraAmounts == {RMul(R(k, 1), ExtraUnit) : k \in 0 .. MaxExtra}

CustomEmis == {Zero, R(2, 1), R(30, 1)}

Frequencies == {0, 1, 2}

YearlySequences == {<<>>, <<ExtraUnit>>}

Timings == {"start", "end"}

Modes == {"reduce-tenure", "reduce-emi"}

LoanInputs(ps, rs, ts, ls, fs, ms, cs, ys, tms, mds) ==
    [principal : ps, annualInterestRate : rs, tenureYears : ts,
     lumpsumAmount : ls, prepaymentFrequency : fs, monthlyExtraPayment : ms,
     customEmi : cs, yearlyPrepayments : ys,
     prepaymentTiming : tms, prepaymentMode : mds]

\* Every scenario at rate 0 and at the compound rate; the zero and negative
\* tenures, whose standard schedule runs to the safety cap, at rate 0 with the
\* scenarios that have no extra payment.
InputSpace ==
    LoanInputs(Principals, {Zero}, SimpleTenures, ExtraAmounts, Frequencies,
               ExtraAmounts, CustomEmis, YearlySequences, Timings, Modes)
    \cup LoanInputs(Principals, {CompoundRate}, CompoundTenures, ExtraAmounts,
                    Frequencies, ExtraAmounts, CustomEmis, YearlySequences,
                    Timings, Modes)
    \cup LoanInputs({R(-50, 1), Zero, PrincipalUnit}, {Zero}, DegenerateTenures,
                    {Zero}, {0}, {Zero}, {Zero, R(2, 1)}, {<<>>}, {"start"}, Modes)

(***************************************************************************)
(* The persisted scenario: JavaScript values, their JSON text and the item *)
(* of window.localStorage.  A number is finite, NaN, or null once a JSON   *)
(* text was parsed; JSON.stringify writes NaN as null.  A JSON text is     *)
(* modelled by its tokens.                                                 *)
(***************************************************************************)
JsNumber(x) == [kind |-> "number", value |-> x]

NaN == [kind |-> "NaN", value |-> Zero]

JsNull == [kind |-> "null", value |-> Zero]

IsNaN(v) == v.kind = "NaN"

\* what parseFloat(e.target.value) returns: NaN for a text that is no number
ParsedFloats == {NaN} \cup {JsNumber(x) : x \in ExtraAmounts}

\* mutant: the parsed number is stored as it is
NumberOrZero_Unchecked(numValue) == numValue

\* isNaN(numValue) ? 0 : numValue
NumberOrZero(numValue) == IF IsNaN(numValue) THEN JsNumber(Zero) ELSE numValue

\* JSON.stringify of a number: its digits, or null when it is not finite
StringifyNumber(v) ==
    IF v.kind = "number" THEN [token |-> "number", value |-> v.value]
    ELSE [token |-> "null", value |-> Zero]

\* JSON.parse of a number or null token
ParseNumber(t) == IF t.token = "number" THEN JsNumber(t.value) ELSE JsNull

\* JSON.stringify(nextValue) of a ScenarioState
Stringify(state) ==
    [lumpsumAmount |-> StringifyNumber(state.lumpsumAmount),
     monthlyExtraPayment |-> StringifyNumber(state.monthlyExtraPayment),
     prepaymentTiming |-> state.prepaymentTiming,
     prepaymentMode |-> state.prepaymentMode,
     yearlyPrepayments |->
         [i \in DOMAIN state.yearlyPrepayments |->
              StringifyNumber(state.yearlyPrepayments[i])]]

\* JSON.parse(item) of a well-formed text
Parse(json) ==
    [lumpsumAmount |-> ParseNumber(json.lumpsumAmount),
     monthlyExtraPayment |-> ParseNumber(json.monthlyExtraPayment),
     prepaymentTiming |-> json.prepaymentTiming,
     prepaymentMode |-> json.prepaymentMode,
     yearlyPrepayments |->
         [i \in DOMAIN json.yearlyPrepayments |->
              ParseNumber(json.yearlyPrepayments[i])]]

\* DEFAULT_SCENARIO_A, without the frequency and the custom EMI and with one
\* year of yearly prepayments
initialValue ==
    [lumpsumAmount |-> JsNumber(ExtraUnit), monthlyExtraPayment |-> JsNumber(Zero),
     prepaymentTiming |-> "end", prepaymentMode |-> "reduce-tenure",
     yearlyPrepayments |-> <<JsNumber(Zero)>>]

\* the scenario states the handlers of the form can produce
ScenarioStates ==
    [lumpsumAmount : {JsNumber(x) : x \in ExtraAmounts},
     monthlyExtraPayment : {JsNumber(x) : x \in ExtraAmounts},
     prepaymentTiming : Timings,
     prepaymentMode : Modes,
     yearlyPrepayments : {<<>>} \cup {<<JsNumber(x)>> : x \in ExtraAmounts}]

\* the item under the key: none, the empty string, a text that is not JSON,
\* or the JSON text of a value
NoItem ==
    [exists |-> FALSE, empty |-> FALSE, wellFormed |-> FALSE,
     json |-> Stringify(initialValue)]

EmptyItem == [NoItem EXCEPT !.exists = TRUE, !.empty = TRUE]

GarbageItem == [NoItem EXCEPT !.exists = TRUE]

JsonItem(state) ==
    [exists |-> TRUE, empty |-> FALSE, wellFormed |-> TRUE, json |-> Stringify(state)]

\* the initial state of the hook:
\* try { item ? JSON.parse(item) : initialValue } catch { initialValue }
MountValue(item) ==
    IF item.exists /\ ~item.empty
    THEN IF item.wellFormed THEN Parse(item.json) ELSE initialValue
    ELSE initialValue

\* values.slice(0, years), padded with 0 up to years entries
NormalizeYearlyPrepayments(values, years) ==
    [i \in 1 .. years |-> IF i <= Len(values) THEN values[i] ELSE JsNumber(Zero)]

\* the key of the hook of scenario A, and that of scenario B
Key == "loanpro-a"

OtherKey == "loanpro-b"

\* the tabs that have the App open
Tabs == {"tab1", "tab2"}

\* the storage event another document receives for a setItem that changed
\* the item under key
StorageEvent(key, item) == [key |-> key, newValue |-> item]

\* handleStorage: the state of the hook after the event e
\* if (e.key === key && e.newValue) { try { setStoredValue(JSON.parse(..)) } catch {} }
HandleStorageValue(value, e) ==
    IF e.key = Key /\ e.newValue.exists /\ ~e.newValue.empty
    THEN IF e.newValue.wellFormed THEN Parse(e.newValue.json) ELSE value
    ELSE value

\* no other tab is open
NoTabs == [t \in Tabs |-> [storedValue |-> initialValue, pending |-> <<>>]]

\* the texts of getLoanAdvice and fetchAdvice
FailedToFetch == "Failed to fetch AI advice. Please check your connection and try again."

SomethingWentWrong == "Something went wrong."

\* response.text: undefined, the empty string or a text
ResponseTexts == {<<>>, <<"">>, <<"## Executive summary">>}

\* advice || 'Something went wrong.'
AdviceOrFallback(advice) ==
    IF advice = <<>> \/ advice = <<"">> THEN <<SomethingWentWrong>> ELSE advice

(***************************************************************************)
(* getSummary: the reduction of the two schedules.                         *)
(***************************************************************************)
\* rows lo .. hi of s added to sum from left to right, as reduce does;
\* testing the denominator has each sum evaluated before the next row is added
RECURSIVE ReduceFrom(_, _, _, _, _)
ReduceFrom(s, f, lo, hi, sum) ==
    IF lo > hi THEN sum
    ELSE LET next == RAdd(sum, s[lo][f])
         IN  IF next.d > 0 THEN ReduceFrom(s, f, lo + 1, hi, next) ELSE Zero

\* the same, 25 rows at a time
RECURSIVE ReduceBlocks(_, _, _, _)
ReduceBlocks(s, f, lo, sum) ==
    IF lo > Len(s) THEN sum
    ELSE LET block == ReduceFrom(s, f, lo, IMin(lo + 24, Len(s)), sum)
         IN  IF block.d > 0 THEN ReduceBlocks(s, f, lo + 25, block) ELSE Zero

\* schedule.reduce((sum, row) => sum + row[f], 0)
Reduce(s, f) == ReduceBlocks(s, f, 1, Zero)

\* mutant: the savings are plain differences, not floored at 0
GetSummary_SignedSavings(cfg, standard, prepay) ==
    LET totalInterestStandard == Reduce(standard, "interest")
        totalInterestWithPrepayment == Reduce(prepay, "interest")
    IN  [monthlyEmi |-> IF RLt(Zero, cfg.customEmi) THEN cfg.customEmi
                        ELSE CalculateEmi(cfg.principal, cfg.annualInterestRate,
                                          cfg.tenureYears),
         totalInterestStandard |-> totalInterestStandard,
         totalInterestWithPrepayment |-> totalInterestWithPrepayment,
         interestSaved |-> RSub(totalInterestStandard, totalInterestWithPrepayment),
         standardTenureMonths |-> Len(standard),
         newTenureMonths |-> Len(prepay),
         tenureSavedMonths |-> Len(standard) - Len(prepay),
         totalAmountStandard |-> Reduce(standard, "totalPaidThisMonth"),
         totalAmountWithPrepayment |-> Reduce(prepay, "totalPaidThisMonth"),
         totalPrepaymentOutlay |-> Reduce(prepay, "lumpsum")]

\* the object getSummary returns, from its two schedules
GetSummary(cfg, standard, prepay) ==
    LET totalInterestStandard == Reduce(standard, "interest")
        totalInterestWithPrepayment == Reduce(prepay, "interest")
    IN  [monthlyEmi |-> IF RLt(Zero, cfg.customEmi) THEN cfg.customEmi
                        ELSE CalculateEmi(cfg.principal, cfg.annualInterestRate,
                                          cfg.tenureYears),
         totalInterestStandard |-> totalInterestStandard,
         totalInterestWithPrepayment |-> totalInterestWithPrepayment,
         interestSaved |->
             RMax(Zero, RSub(totalInterestStandard, totalInterestWithPrepayment)),
         standardTenureMonths |-> Len(standard),
         newTenureMonths |-> Len(prepay),
         tenureSavedMonths |-> IMax(0, Len(standard) - Len(prepay)),
         totalAmountStandard |-> Reduce(standard, "totalPaidThisMonth"),
         totalAmountWithPrepayment |-> Reduce(prepay, "totalPaidThisMonth"),
         totalPrepaymentOutlay |-> Reduce(prepay, "lumpsum")]

\* the summary before getSummary has run
NoSummary ==
    [monthlyEmi |-> Zero, totalInterestStandard |-> Zero,
     totalInterestWithPrepayment |-> Zero, interestSaved |-> Zero,
     standardTenureMonths |-> 0, newTenureMonths |-> 0, tenureSavedMonths |-> 0,
     totalAmountStandard |-> Zero, totalAmountWithPrepayment |-> Zero,
     totalPrepaymentOutlay |-> Zero]

(***************************************************************************)
(* getPrepaymentInsight.  A division by 0 gives Infinity or NaN in         *)
(* JavaScript.  Math.pow(base, 1 / degree) is a rational for degree 1 or   *)
(* base 1; any other root is kept as the pair of its base and degree.      *)
(***************************************************************************)
Infinity == [kind |-> "Infinity", value |-> Zero]

\* a / b
Divide(a, b) ==
    IF b # Zero THEN JsNumber(RDiv(a, b)) ELSE IF a = Zero THEN NaN ELSE Infinity

\* v * 100
TimesHundred(v) ==
    IF v.kind = "number" THEN JsNumber(RMul(v.value, R(100, 1))) ELSE v

ZeroReturn == [kind |-> "number", value |-> Zero, degree |-> One]

\* (Math.pow(1 + ratio, 1 / degree) - 1) * 100, for degree >= 1
RootReturn(ratio, degree) ==
    IF ratio.kind # "number" THEN [kind |-> ratio.kind, value |-> Zero, degree |-> One]
    ELSE IF degree = One \/ ratio.value = Zero
    THEN [kind |-> "number", value |-> RMul(ratio.value, R(100, 1)), degree |-> One]
    ELSE [kind |-> "root", value |-> RAdd(One, ratio.value), degree |-> degree]

\* mutant: the ratios are computed whatever the outlay and the months saved
GetPrepaymentInsight_Unguarded(s) ==
    LET yearsSaved == R(s.tenureSavedMonths, 12)
    IN  [totalPrepaymentOutlay |-> s.totalPrepaymentOutlay,
         interestSaved |-> s.interestSaved,
         roi |-> TimesHundred(Divide(s.interestSaved, s.totalPrepaymentOutlay)),
         annualisedReturn |->
             RootReturn(Divide(s.interestSaved, s.totalPrepaymentOutlay),
                        RMax(One, yearsSaved)),
         tenureSavedMonths |-> s.tenureSavedMonths]

\* getPrepaymentInsight(summary)
GetPrepaymentInsight(s) ==
    LET yearsSaved == R(s.tenureSavedMonths, 12)
    IN  [totalPrepaymentOutlay |-> s.totalPrepaymentOutlay,
         interestSaved |-> s.interestSaved,
         roi |-> IF RLt(Zero, s.totalPrepaymentOutlay)
                 THEN TimesHundred(Divide(s.interestSaved, s.totalPrepaymentOutlay))
                 ELSE JsNumber(Zero),
         annualisedReturn |->
             IF RLt(Zero, yearsSaved) /\ RLt(Zero, s.totalPrepaymentOutlay)
             THEN RootReturn(Divide(s.interestSaved, s.totalPrepaymentOutlay),
                             RMax(One, yearsSaved))
             ELSE ZeroReturn,
         tenureSavedMonths |-> s.tenureSavedMonths]

\* the insight before getPrepaymentInsight has run
NoInsight ==
    [totalPrepaymentOutlay |-> Zero, interestSaved |-> Zero, roi |-> JsNumber(Zero),
     annualisedReturn |-> ZeroReturn, tenureSavedMonths |-> 0]

(***************************************************************************)
(* getCumulativeInterestData: the loop over i = 0 .. maxLen - 1, with its  *)
(* running sums and the points pushed so far.                              *)
(***************************************************************************)
\* schedule[i]?.interest ?? 0   (i counts from 0)
InterestAt(s, i) == IF i + 1 <= Len(s) THEN s[i + 1].interest ELSE Zero

\* mutant: the last period gets a point only when it is a multiple of 12
SkipPoint_NoLastPoint(yearlyGranularity, i, maxLen) ==
    yearlyGranularity /\ (i + 1) % 12 # 0

\* yearlyGranularity && month % 12 !== 0 && i !== maxLen - 1
SkipPoint(yearlyGranularity, i, maxLen) ==
    yearlyGranularity /\ (i + 1) % 12 # 0 /\ i # maxLen - 1

\* (testing the denominators has the running sums evaluated at every step)
RECURSIVE CumulativeFrom(_, _, _, _, _, _, _)
CumulativeFrom(standard, prepay, yearlyGranularity, i, stdCum, preCum, points) ==
    LET maxLen == IMax(Len(standard), Len(prepay))
        nextStd == RAdd(stdCum, InterestAt(standard, i))
        nextPre == RAdd(preCum, InterestAt(prepay, i))
        year == RCeil(R(i + 1, 12))
        point == [month |-> i + 1,
                  year |-> year,
                  label |-> <<"Yr", year>>,
                  standardCumInterest |-> RRound(nextStd),
                  prepaidCumInterest |-> RRound(nextPre)]
    IN  IF i >= maxLen \/ nextStd.d <= 0 \/ nextPre.d <= 0 THEN points
        ELSE CumulativeFrom(standard, prepay, yearlyGranularity, i + 1,
                            nextStd, nextPre,
                            IF SkipPoint(yearlyGranularity, i, maxLen) THEN points
                            ELSE Append(points, point))

\* getCumulativeInterestData(standardSchedule, prepaySchedule, yearlyGranularity)
GetCumulativeInterestData(standard, prepay, yearlyGranularity) ==
    CumulativeFrom(standard, prepay, yearlyGranularity, 0, Zero, Zero, <<>>)

\* the chart data before getCumulativeInterestData has run
NoCumulativeData == [yearlyGranularity |-> TRUE, points |-> <<>>]

(***************************************************************************)
(* State: getSummary(inputs) runs generateSchedule(inputs, false) and then *)
(* generateSchedule(inputs, true).                                         *)
(***************************************************************************)
VARIABLES
    inputs,            \* the LoanInputs of the call
    pc,                \* "idle", "loop" (inside generateSchedule), "return", "done"
    usePrepayments,    \* the flag of the running generateSchedule call
    balance,           \* its local balance
    month,             \* its local month
    schedule,          \* its local schedule
    standardSchedule,  \* getSummary's standardSchedule, once returned
    prepaySchedule,    \* getSummary's prepaySchedule, once returned
    validationErrors,  \* App: the result of validateInputs(inputsA)
    call,              \* App: the memo being computed: "summary",
                       \* "standardSchedule" or "prepayScheduleA"
    standardScheduleA, \* App: its standardSchedule, generateSchedule(inputsA, false)
    prepayScheduleA,   \* App: its prepayScheduleA, generateSchedule(inputsA, true)
    localStorage,      \* window.localStorage: the item under the key 'loanpro-a'
    mounted,           \* whether the App component, and so the hook, is mounted
    storedValue,       \* useLocalStorage: the hook's state (scenarioA)
    lastSet,           \* history: the last nextValue passed through setValue
    fresh,             \* history: no setValue since the hook was mounted
    tabs,              \* the hook instances of the tabs open on the same origin:
                       \* for each tab its storedValue and the storage events
                       \* queued for it
    apiKey,            \* process.env.API_KEY: "set" or "missing"
    request,           \* the promise of getLoanAdvice: "none", "pending", "rejected"
    loadingAdvice,     \* App: loadingAdvice
    aiAdvice,          \* App: aiAdvice, <<>> for null and <<text>> for a string
    summary,           \* App: summary, the result of getSummary(inputsA)
    insight,           \* App: insight, the result of getPrepaymentInsight(summary)
    cumulativeData     \* App: cumulativeData, with the yearlyGranularity of the
                       \* call of getCumulativeInterestData that returned it

\* the schedules the App component computes besides the summary
memoVars == <<call, standardScheduleA, prepayScheduleA>>

\* the state of the App component outside the schedule engine
\* the persisted scenario and its storage
storageVars == <<localStorage, mounted, storedValue, lastSet, fresh, tabs>>

\* the AI advice panel
adviceVars == <<apiKey, request, loadingAdvice, aiAdvice>>

\* the figures derived from the schedules
derivedVars == <<summary, insight, cumulativeData>>

appVars == <<validationErrors, memoVars, storageVars, adviceVars, derivedVars>>

vars == <<inputs, pc, usePrepayments, balance, month, schedule,
          standardSchedule, prepaySchedule, appVars>>

\* the App component before anything ran
AppInit ==
    /\ validationErrors = <<>>
    /\ call = "summary"
    /\ standardScheduleA = <<>>
    /\ prepayScheduleA = <<>>
    /\ localStorage = NoItem
    /\ mounted = FALSE
    /\ storedValue = initialValue
    /\ lastSet = [set |-> FALSE, value |-> initialValue]
    /\ fresh = FALSE
    /\ tabs = NoTabs
    /\ apiKey = "set"
    /\ request = "none"
    /\ loadingAdvice = FALSE
    /\ aiAdvice = <<>>
    /\ summary = NoSummary
    /\ insight = NoInsight
    /\ cumulativeData = NoCumulativeData

Init ==
    /\ inputs \in InputSpace
    /\ pc = "idle"
    /\ usePrepayments = FALSE
    /\ balance = Zero
    /\ month = 0
    /\ schedule = <<>>
    /\ standardSchedule = <<>>
    /\ prepaySchedule = <<>>
    /\ AppInit

\* mutant: a call goes on appending to the array of the call before it
Enter_SharedSchedule(flag) ==
    /\ usePrepayments' = flag
    /\ balance' = inputs.principal
    /\ schedule' = schedule
    /\ month' = 1
    /\ pc' = IF LoopCondition(inputs, inputs.principal, 1) THEN "loop" ELSE "return"

\* generateSchedule(inputs, flag) is entered: the locals are initialised and the
\* while condition is tested for the first time
Enter(flag) ==
    /\ usePrepayments' = flag
    /\ balance' = inputs.principal
    /\ schedule' = <<>>
    /\ month' = 1
    /\ pc' = IF LoopCondition(inputs, inputs.principal, 1) THEN "loop" ELSE "return"

\* getSummary: const standardSchedule = generateSchedule(inputs, false)
CallStandard ==
    /\ pc = "idle"
    /\ Enter(FALSE)
    /\ UNCHANGED <<inputs, standardSchedule, prepaySchedule, appVars>>

\* one iteration of the while loop, up to the next test of its condition
LoopStep ==
    /\ pc = "loop"
    /\ LET body == LoopBody(inputs, usePrepayments, month, balance)
       IN  /\ balance' = body.balance
           /\ schedule' = Append(schedule, body.row)
           /\ IF RLe(body.balance, Zero)
              THEN month' = month /\ pc' = "return"
              ELSE /\ month' = month + 1
                   /\ pc' = IF LoopCondition(inputs, body.balance, month + 1)
                            THEN "loop" ELSE "return"
    /\ UNCHANGED <<inputs, usePrepayments, standardSchedule, prepaySchedule, appVars>>

\* generateSchedule(inputs, false) returns; getSummary goes on with
\* const prepaySchedule = generateSchedule(inputs, true)
ReturnStandard ==
    /\ pc = "return"
    /\ call = "summary"
    /\ ~usePrepayments
    /\ standardSchedule' = schedule
    /\ Enter(TRUE)
    /\ UNCHANGED <<inputs, prepaySchedule, appVars>>

\* generateSchedule(inputs, true) returns
ReturnPrepay ==
    /\ pc = "return"
    /\ call = "summary"
    /\ usePrepayments
    /\ prepaySchedule' = schedule
    /\ pc' = "done"
    /\ summary' = GetSummary(inputs, standardSchedule, schedule)
    /\ UNCHANGED <<inputs, usePrepayments, balance, month, schedule, standardSchedule,
                   validationErrors, memoVars, storageVars, adviceVars, insight,
                   cumulativeData>>

Next == CallStandard \/ LoopStep \/ ReturnStandard \/ ReturnPrepay

Spec == Init /\ [][Next]_vars

(***************************************************************************)
(* Properties.                                                             *)
(***************************************************************************)
Last(s) == s[Len(s)]

Rows(s) == {s[i] : i \in 1 .. Len(s)}

\* generateSchedule(inputs, false) has returned
StandardReturned == usePrepayments \/ pc = "done"

\* both calls of getSummary have returned
BothReturned == pc = "done"

\* C1: for every configuration, valid or not, and either flag, generateSchedule
\* terminates and returns at most 600 rows: the loop is only ever inside months
\* 1 .. 600, every iteration pushes one row and moves to the next month or
\* leaves the loop, and no schedule is longer than 600 rows.
C1_TerminatesWithinCap ==
    /\ Len(schedule) <= SafetyCapMonths
    /\ Len(standardSchedule) <= SafetyCapMonths
    /\ Len(prepaySchedule) <= SafetyCapMonths
    /\ pc = "loop" => month \in 1 .. SafetyCapMonths /\ Len(schedule) = month - 1
    /\ pc = "return" => Len(schedule) \in {month - 1, month}

\* a standard schedule that stops at the 600-period cap with a balance left
C1_CapReached ==
    /\ BothReturned
    /\ Len(standardSchedule) = SafetyCapMonths
    /\ RLt(Epsilon, Last(standardSchedule).endingBalance)

\* C3: in the schedule of either call, the closing balance of every row is the
\* opening balance of the next row.
C3_BalanceContinuity ==
    \A i \in 1 .. Len(schedule) - 1 :
        schedule[i].endingBalance = schedule[i + 1].beginningBalance

\* a prepaid schedule of three rows or more with an extra applied after the
\* installment and balances that are not whole numbers
C3_PrepaidRowsChained ==
    /\ BothReturned
    /\ Len(prepaySchedule) >= 3
    /\ inputs.prepaymentTiming = "end"
    /\ \E row \in Rows(prepaySchedule) :
           RLt(Zero, row.lumpsum) /\ ~IsWhole(row.endingBalance)

\* C4: the closing balance of every row of every schedule is >= 0.
C4_ClosingNonNegative ==
    \A row \in Rows(schedule) \cup Rows(standardSchedule) \cup Rows(prepaySchedule) :
        RLe(Zero, row.endingBalance)

\* a row whose requested extra exceeds the outstanding balance, and a last row
\* whose installment is cut down to balance + interest: both close at 0
C4_OverpaymentClamped ==
    /\ BothReturned
    /\ \E row \in Rows(prepaySchedule) :
           /\ RLt(row.lumpsum, ExtraPayment(inputs, TRUE, row.month))
           /\ row.endingBalance = Zero
    /\ standardSchedule # <<>>
    /\ RLt(Last(standardSchedule).emi, StandardEmi(inputs))
    /\ Last(standardSchedule).endingBalance = Zero

\* the sum of field f over rows lo .. hi of s, by halving
RECURSIVE SumField(_, _, _, _)
SumField(s, f, lo, hi) ==
    IF lo > hi THEN Zero
    ELSE IF lo = hi THEN s[lo][f]
    ELSE LET mid == (lo + hi) \div 2
         IN  RAdd(SumField(s, f, lo, mid), SumField(s, f, mid + 1, hi))

TotalInterest(s) == SumField(s, "interest", 1, Len(s))

\* validateInputs returns no warning
Valid(cfg) == ValidateInputs(cfg) = <<>>

\* the configuration has a positive extra source: a monthly extra, a lump sum
\* with a frequency, or a yearly prepayment
HasPositiveExtra(cfg) ==
    \/ RLt(Zero, cfg.monthlyExtraPayment)
    \/ RLt(Zero, cfg.lumpsumAmount) /\ cfg.prepaymentFrequency > 0
    \/ \E y \in DOMAIN cfg.yearlyPrepayments : RLt(Zero, cfg.yearlyPrepayments[y])

\* C2: for every configuration that validateInputs accepts with no warnings,
\* the last row of the standard schedule has closing balance <= 0.01.
C2_ValidStandardRepaid ==
    StandardReturned /\ Valid(inputs) /\ standardSchedule # <<>>
        => RLe(Last(standardSchedule).endingBalance, Epsilon)

\* C5, for the configurations validateInputs accepts: with a positive extra
\* source, the total interest of the prepaid schedule is never greater than
\* that of the standard schedule.
C5_InterestNeverHigher ==
    BothReturned /\ HasPositiveExtra(inputs) /\ Valid(inputs)
        => RLe(TotalInterest(prepaySchedule), TotalInterest(standardSchedule))

\* C6, for the configurations validateInputs accepts: with a positive extra
\* source, the prepaid schedule never has more rows than the standard schedule.
C6_LengthNeverLonger ==
    BothReturned /\ HasPositiveExtra(inputs) /\ Valid(inputs)
        => Len(prepaySchedule) <= Len(standardSchedule)

\* C7: at rate 0 with positive principal and tenure, every row of the standard
\* schedule has interest 0, the total interest is 0, and the baseline
\* installment times tenureYears x 12 is the principal (the first row charges
\* it whenever the tenure is at least one month).
C7_ZeroRate ==
    StandardReturned /\ inputs.annualInterestRate = Zero
    /\ RLt(Zero, inputs.principal) /\ RLt(Zero, inputs.tenureYears)
        => /\ \A row \in Rows(standardSchedule) : row.interest = Zero
           /\ TotalInterest(standardSchedule) = Zero
           /\ RMul(StandardEmi(inputs), RMul(inputs.tenureYears, R(12, 1)))
                  = inputs.principal
           /\ standardSchedule # <<>> /\ RLe(R(1, 12), inputs.tenureYears)
                  => RMul(standardSchedule[1].emi, RMul(inputs.tenureYears, R(12, 1)))
                         = inputs.principal

\* a zero-rate standard schedule of several rows for a tenure that is not a
\* whole number of months
C7_ZeroRateFractionalTenure ==
    /\ StandardReturned
    /\ inputs.annualInterestRate = Zero
    /\ Len(standardSchedule) >= 3
    /\ ~IsWhole(RMul(inputs.tenureYears, R(12, 1)))

\* the same base inputs under two fixed scenarios: nothing set, and everything set
WithScenario(cfg, lump, freq, monthly, custom, yearly, timing, mode) ==
    [principal |-> cfg.principal, annualInterestRate |-> cfg.annualInterestRate,
     tenureYears |-> cfg.tenureYears, lumpsumAmount |-> lump,
     prepaymentFrequency |-> freq, monthlyExtraPayment |-> monthly,
     customEmi |-> custom, yearlyPrepayments |-> yearly,
     prepaymentTiming |-> timing, prepaymentMode |-> mode]

OtherScenarios(cfg) ==
    {WithScenario(cfg, Zero, 0, Zero, Zero, <<>>, "start", "reduce-tenure"),
     WithScenario(cfg, ExtraUnit, 1, ExtraUnit, R(30, 1), <<ExtraUnit>>, "end",
                  "reduce-emi")}

\* C8: the standard schedule does not depend on the scenario settings: the
\* standard call starts alike, and at every iteration pushes the same row,
\* carries the same balance and takes the same loop decision, for the same
\* base inputs under the empty and under the full scenario (so any two
\* scenarios give the same schedule); every row of a standard schedule has
\* extra payment 0 and total paid equal to its installment.
C8_StandardIgnoresScenario ==
    /\ \A other \in OtherScenarios(inputs) :
           /\ LoopCondition(other, other.principal, 1)
                  = LoopCondition(inputs, inputs.principal, 1)
           /\ pc = "loop" /\ ~usePrepayments =>
                  LET mine == LoopBody(inputs, FALSE, month, balance)
                      theirs == LoopBody(other, FALSE, month, balance)
                  IN  /\ mine = theirs
                      /\ LoopCondition(other, theirs.balance, month + 1)
                             = LoopCondition(inputs, mine.balance, month + 1)
    /\ \A row \in (IF usePrepayments THEN {} ELSE Rows(schedule))
                      \cup Rows(standardSchedule) :
           row.lumpsum = Zero /\ row.totalPaidThisMonth = row.emi

\* a standard run in its second month or later, for a scenario with a custom
\* EMI and every extra source set
C8_StandardRunOfFullScenario ==
    /\ pc = "loop" /\ ~usePrepayments /\ month >= 2
    /\ RLt(Zero, inputs.customEmi)
    /\ RLt(Zero, inputs.monthlyExtraPayment)
    /\ RLt(Zero, inputs.lumpsumAmount) /\ inputs.prepaymentFrequency = 1
    /\ inputs.yearlyPrepayments # <<>>
    /\ inputs.prepaymentMode = "reduce-emi"
    /\ RLt(Zero, inputs.annualInterestRate)

\* C9: generateSchedule returns an empty schedule whenever principal <= 0 or
\* tenureYears <= 0, for either flag.
C9_EmptyForNonPositive ==
    BothReturned /\ (RLe(inputs.principal, Zero) \/ RLe(inputs.tenureYears, Zero))
        => standardSchedule = <<>> /\ prepaySchedule = <<>>

\* reduce-emi mode with no custom EMI
LowerInstallment(cfg) == cfg.prepaymentMode = "reduce-emi" /\ cfg.customEmi = Zero

\* the tenure is a whole number of months, at least one
WholeMonthTenure(cfg) ==
    IsWhole(RMul(cfg.tenureYears, R(12, 1))) /\ RLe(R(1, 12), cfg.tenureYears)

FixedInstallment(cfg) ==
    cfg.prepaymentMode = "reduce-tenure" /\ ~RLt(Zero, cfg.customEmi)

\* balanceAfterPrepay + interest of a row of a prepaid schedule: the extra of
\* the row came off the balance before the interest under "start" timing only
BalancePlusInterest(cfg, row) ==
    RAdd(IF cfg.prepaymentTiming = "start"
         THEN RSub(row.beginningBalance, row.lumpsum) ELSE row.beginningBalance,
         row.interest)

\* C12: in reduce-tenure mode with prepayments active and no custom EMI, every
\* row's installment is the baseline installment of the original principal and
\* full tenure, or it is balance + interest; a row whose installment is not the
\* baseline one is the last row, and the loop has been left after it.
C12_InstallmentFixed ==
    usePrepayments /\ FixedInstallment(inputs)
        => \A i \in 1 .. Len(schedule) :
               \/ schedule[i].emi = StandardEmi(inputs)
               \/ /\ schedule[i].emi = BalancePlusInterest(inputs, schedule[i])
                  /\ i = Len(schedule)
                  /\ pc # "loop"

\* a reduce-tenure schedule shortened by extra payments: its rows charge the
\* baseline installment, at a compound rate, and the last one is cut down to
\* balance + interest
C12_LastRowClamped ==
    /\ BothReturned /\ FixedInstallment(inputs)
    /\ RLt(Zero, inputs.annualInterestRate)
    /\ Len(prepaySchedule) >= 2
    /\ Len(prepaySchedule) <= Len(standardSchedule)
    /\ \E row \in Rows(prepaySchedule) : RLt(Zero, row.lumpsum)
    /\ prepaySchedule[1].emi = StandardEmi(inputs)
    /\ RLt(Last(prepaySchedule).emi, StandardEmi(inputs))

(***************************************************************************)
(* The App component validates the inputs of scenario A:                   *)
(* validationErrors = validateInputs(inputsA).                             *)
(***************************************************************************)
\* the schedule engine has not been called
EngineIdle ==
    /\ pc = "idle"
    /\ usePrepayments = FALSE
    /\ balance = Zero
    /\ month = 0
    /\ schedule = <<>>
    /\ standardSchedule = <<>>
    /\ prepaySchedule = <<>>

\* the inputs drawn for validation: on both sides of every bound that
\* validateInputs tests
ValidationRates == {R(-12, 1), Zero, CompoundRate, R(50, 1), R(51, 1)}

ValidationTenures == {R(-1, 12), Zero, R(1, 12), One, R(40, 1), R(41, 1)}

ValidationAmounts == {RNeg(ExtraUnit)} \cup ExtraAmounts

ValidationCustomEmis == {R(-2, 1)} \cup CustomEmis

ValidationInputs ==
    LoanInputs(Principals, ValidationRates, ValidationTenures, ValidationAmounts,
               {0}, ValidationAmounts, ValidationCustomEmis, {<<>>}, {"start"},
               {"reduce-tenure"})

InitValidate ==
    /\ inputs \in ValidationInputs
    /\ EngineIdle
    /\ AppInit

\* const validationErrors = useMemo(() => validateInputs(inputsA), [inputsA])
Validate ==
    /\ pc = "idle"
    /\ validationErrors' = ValidateInputs(inputs)
    /\ pc' = "validated"
    /\ UNCHANGED <<inputs, usePrepayments, balance, month, schedule,
                   standardSchedule, prepaySchedule, memoVars, storageVars,
                   adviceVars, derivedVars>>

NextValidate == Validate

ValidateSpec == InitValidate /\ [][NextValidate]_vars

\* the nine checks, in the order of the claim, and their warnings
Checks == 1 .. 9

Violated(cfg, k) ==
    CASE k = 1 -> RLe(cfg.principal, Zero)
      [] k = 2 -> RLt(cfg.annualInterestRate, Zero)
      [] k = 3 -> RLt(R(50, 1), cfg.annualInterestRate)
      [] k = 4 -> RLe(cfg.tenureYears, Zero)
      [] k = 5 -> RLt(R(40, 1), cfg.tenureYears)
      [] k = 6 -> RLt(cfg.lumpsumAmount, Zero)
      [] k = 7 -> RLt(cfg.monthlyExtraPayment, Zero)
      [] k = 8 -> RLt(cfg.customEmi, Zero)
      [] k = 9 -> /\ RLt(Zero, cfg.customEmi)
                  /\ RLe(cfg.customEmi,
                         RDiv(RMul(cfg.principal, cfg.annualInterestRate), R(1200, 1)))

WarningText(k) ==
    CASE k = 1 -> "Loan amount must be positive."
      [] k = 2 -> "Interest rate cannot be negative."
      [] k = 3 -> "Interest rate seems unrealistically high (>50%)."
      [] k = 4 -> "Tenure must be at least 1 year."
      [] k = 5 -> "Tenure exceeds 40 years."
      [] k = 6 -> "Lump sum amount cannot be negative."
      [] k = 7 -> "Monthly extra payment cannot be negative."
      [] k = 8 -> "Custom EMI cannot be negative."
      [] k = 9 -> "Custom EMI must exceed monthly interest to reduce principal."

\* the checks that cfg violates
ViolatedChecks(cfg) == {k \in Checks : Violated(cfg, k)}

\* the i-th violated check, counting in the fixed order
NthViolated(cfg, i) ==
    CHOOSE k \in ViolatedChecks(cfg) :
        Cardinality({j \in ViolatedChecks(cfg) : j <= k}) = i

\* C13: validateInputs returns a list for every input; it has one warning per
\* violated check, the i-th warning being that of the i-th violated check in
\* the fixed order, and so it is empty exactly when no check is violated; a
\* positive custom EMI equal to principal x rate/12/100 is flagged.
C13_OneWarningPerCheck ==
    pc = "validated" =>
        /\ Len(validationErrors) = Cardinality(ViolatedChecks(inputs))
        /\ \A i \in 1 .. Len(validationErrors) :
               validationErrors[i][1] = WarningText(NthViolated(inputs, i))
        /\ validationErrors = <<>> <=> ViolatedChecks(inputs) = {}
        /\ RLt(Zero, inputs.customEmi)
           /\ inputs.customEmi
                  = RMul(inputs.principal, MonthlyRate(inputs.annualInterestRate))
               => \E i \in 1 .. Len(validationErrors) :
                      validationErrors[i][1] = WarningText(9)

\* inputs that violate several checks at once, the last of them with a custom
\* EMI exactly equal to the first month's interest
C13_CustomEqualsInterest ==
    /\ pc = "validated"
    /\ Len(validationErrors) >= 3
    /\ RLt(Zero, inputs.customEmi)
    /\ inputs.customEmi = RMul(inputs.principal, MonthlyRate(inputs.annualInterestRate))
    /\ Last(validationErrors)[1] = WarningText(9)

\* a custom EMI that does not exceed the first month's interest
NonConvergent(cfg) ==
    /\ RLt(Zero, cfg.customEmi)
    /\ RLe(cfg.customEmi, RMul(cfg.principal, MonthlyRate(cfg.annualInterestRate)))

BalanceAfterPrepay(cfg, row) ==
    IF cfg.prepaymentTiming = "start"
    THEN RSub(row.beginningBalance, row.lumpsum) ELSE row.beginningBalance

\* the installment computed automatically for a row of a prepaid schedule: the
\* baseline one in reduce-tenure mode, the one recomputed from the balance over
\* the remaining months in reduce-emi mode
AutomaticEmi(cfg, row) ==
    IF cfg.prepaymentMode = "reduce-emi"
    THEN CalculateEmiForMonths(BalanceAfterPrepay(cfg, row), cfg.annualInterestRate,
                               IMax(1, TotalMonths(cfg) - row.month + 1))
    ELSE CalculateEmi(cfg.principal, cfg.annualInterestRate, cfg.tenureYears)

\* C15: with prepayments active and a custom EMI > 0, every row's installment
\* is min(customEmi, balance + interest), in both modes; with a custom EMI of 0
\* it is the automatically computed installment, under the same guard.
C15_CustomEmiPrecedence ==
    usePrepayments =>
        \A row \in Rows(schedule) :
            /\ RLt(Zero, inputs.customEmi)
                   => row.emi = RMin(inputs.customEmi, BalancePlusInterest(inputs, row))
            /\ inputs.customEmi = Zero
                   => row.emi = RMin(AutomaticEmi(inputs, row),
                                     BalancePlusInterest(inputs, row))

\* a reduce-emi schedule with a custom EMI: the first row charges the custom
\* EMI, which is not the recomputed installment, the last row is cut down to
\* balance + interest
C15_CustomOverRecomputed ==
    /\ BothReturned
    /\ inputs.prepaymentMode = "reduce-emi"
    /\ RLt(Zero, inputs.customEmi)
    /\ Len(prepaySchedule) >= 2
    /\ prepaySchedule[1].emi = inputs.customEmi
    /\ prepaySchedule[1].emi # AutomaticEmi(inputs, prepaySchedule[1])
    /\ RLt(Last(prepaySchedule).emi, inputs.customEmi)

(***************************************************************************)
(* A render of the App component: after summary = getSummary(inputsA) it   *)
(* computes standardSchedule = generateSchedule(inputsA, false) and        *)
(* prepayScheduleA = generateSchedule(inputsA, true) from the same object. *)
(***************************************************************************)
RenderInputs ==
    LoanInputs({RMul(R(k, 1), PrincipalUnit) : k \in 1 .. MaxPrincipal}, {Zero},
               {R(1, 5), R(1, 1)}, ExtraAmounts, Frequencies, ExtraAmounts,
               {Zero, R(30, 1)}, YearlySequences, Timings, Modes)
    \cup LoanInputs({RMul(R(k, 1), PrincipalUnit) : k \in 1 .. MaxPrincipal},
                    {CompoundRate}, CompoundTenures, ExtraAmounts, Frequencies,
                    ExtraAmounts, {Zero, R(30, 1)}, YearlySequences, Timings, Modes)

InitRender ==
    /\ inputs \in RenderInputs
    /\ EngineIdle
    /\ AppInit

\* const standardSchedule = useMemo(() => generateSchedule(inputsA, false), ..)
MemoStandard ==
    /\ pc = "done"
    /\ call = "summary"
    /\ call' = "standardSchedule"
    /\ Enter(FALSE)
    /\ UNCHANGED <<inputs, standardSchedule, prepaySchedule, validationErrors,
                   standardScheduleA, prepayScheduleA, storageVars, adviceVars,
                   derivedVars>>

\* that call returns;
\* const prepayScheduleA = useMemo(() => generateSchedule(inputsA, true), ..)
MemoPrepay ==
    /\ pc = "return"
    /\ call = "standardSchedule"
    /\ standardScheduleA' = schedule
    /\ call' = "prepayScheduleA"
    /\ Enter(TRUE)
    /\ UNCHANGED <<inputs, standardSchedule, prepaySchedule, validationErrors,
                   prepayScheduleA, storageVars, adviceVars, derivedVars>>

\* that call returns
MemoDone ==
    /\ pc = "return"
    /\ call = "prepayScheduleA"
    /\ prepayScheduleA' = schedule
    /\ pc' = "rendered"
    /\ UNCHANGED <<inputs, usePrepayments, balance, month, schedule,
                   standardSchedule, prepaySchedule, validationErrors, call,
                   standardScheduleA, storageVars, adviceVars, derivedVars>>

NextRender ==
    \/ CallStandard \/ LoopStep \/ ReturnStandard \/ ReturnPrepay
    \/ MemoStandard \/ MemoPrepay \/ MemoDone

RenderSpec == InitRender /\ [][NextRender]_vars

MaxYears == 1

\* the variables that the hook leaves alone
notStorageVars ==
    <<inputs, pc, usePrepayments, balance, month, schedule, standardSchedule,
      prepaySchedule, validationErrors, memoVars, adviceVars, derivedVars>>

\* setStoredValue(prev => { ..setItem(key, JSON.stringify(nextValue)).. return nextValue })
SetValue(nextValue) ==
    /\ mounted
    /\ localStorage' = JsonItem(nextValue)
    /\ storedValue' = nextValue
    /\ lastSet' = [set |-> TRUE, value |-> nextValue]
    /\ fresh' = FALSE
    /\ UNCHANGED <<mounted, tabs, notStorageVars>>

\* the component is mounted: useState(() => ..) reads the item
Mount ==
    /\ ~mounted
    /\ mounted' = TRUE
    /\ storedValue' = MountValue(localStorage)
    /\ fresh' = TRUE
    /\ UNCHANGED <<localStorage, lastSet, tabs, notStorageVars>>

\* the page is closed: the state of the hook is gone, the item stays
Unmount ==
    /\ mounted
    /\ mounted' = FALSE
    /\ storedValue' = initialValue
    /\ fresh' = FALSE
    /\ UNCHANGED <<localStorage, lastSet, tabs, notStorageVars>>

\* handleScenarioAChange: a select sets the timing or the mode, a number field
\* the parsed number, or 0 when it is NaN
HandleScenarioChange ==
    \/ \E value \in Timings :
           SetValue([storedValue EXCEPT !.prepaymentTiming = value])
    \/ \E value \in Modes :
           SetValue([storedValue EXCEPT !.prepaymentMode = value])
    \/ \E name \in {"lumpsumAmount", "monthlyExtraPayment"}, numValue \in ParsedFloats :
           SetValue([storedValue EXCEPT ![name] = NumberOrZero(numValue)])

\* yearlyHandlerA(yearIndex), for the years the form shows
HandleYearlyChange ==
    \E i \in DOMAIN storedValue.yearlyPrepayments, numValue \in ParsedFloats :
        SetValue([storedValue EXCEPT !.yearlyPrepayments[i] = NumberOrZero(numValue)])

\* the effect on baseInputs.tenureYears resizes yearlyPrepayments
NormalizeEffect ==
    \E years \in 0 .. MaxYears :
        SetValue([storedValue EXCEPT !.yearlyPrepayments =
                      NormalizeYearlyPrepayments(storedValue.yearlyPrepayments, years)])

\* setValue(value) with a value that is not a function
SetDirect == \E value \in ScenarioStates : SetValue(value)

\* the items a previous session or another program can have left
InitialItems ==
    {NoItem, EmptyItem, GarbageItem} \cup {JsonItem(state) : state \in ScenarioStates}

\* the schedule engine and the validator are not used
EngineUnused ==
    /\ inputs \in {CHOOSE cfg \in InputSpace : TRUE}
    /\ EngineIdle
    /\ validationErrors = <<>>
    /\ call = "summary" /\ standardScheduleA = <<>> /\ prepayScheduleA = <<>>
    /\ summary = NoSummary
    /\ insight = NoInsight
    /\ cumulativeData = NoCumulativeData

InitStorage ==
    /\ EngineUnused
    /\ localStorage \in InitialItems
    /\ mounted = FALSE
    /\ storedValue = initialValue
    /\ lastSet = [set |-> FALSE, value |-> initialValue]
    /\ fresh = FALSE
    /\ tabs = NoTabs
    /\ apiKey = "set" /\ request = "none" /\ loadingAdvice = FALSE /\ aiAdvice = <<>>

NextStorage ==
    \/ Mount \/ Unmount \/ HandleScenarioChange \/ HandleYearlyChange
    \/ NormalizeEffect \/ SetDirect

StorageSpec == InitStorage /\ [][NextStorage]_vars

\* C17: once setValue has been called, by an updater or with a value, the item
\* under the key is the JSON text of the last value set and the state of the
\* mounted hook is that value, also when the hook was mounted afresh from the
\* item since; a hook freshly mounted on a missing item, an empty one or one
\* that is not JSON holds the default value.
C17_PersistenceRoundTrip ==
    /\ lastSet.set => localStorage = JsonItem(lastSet.value)
    /\ lastSet.set /\ mounted =>
           storedValue = lastSet.value /\ localStorage = JsonItem(storedValue)
    /\ mounted /\ fresh /\ (~localStorage.exists \/ ~localStorage.wellFormed)
           => storedValue = initialValue

\* a hook freshly mounted from the item of an earlier mount, holding the last
\* value set there, which is not the default
C17_RemountedWithLastValue ==
    /\ mounted /\ fresh /\ lastSet.set
    /\ lastSet.value # initialValue
    /\ lastSet.value.yearlyPrepayments # <<>>
    /\ storedValue = lastSet.value

(***************************************************************************)
(* fetchAdvice and getLoanAdvice.  getLoanAdvice constructs the client,    *)
(* new GoogleGenAI({ apiKey: process.env.API_KEY }), and formats the       *)
(* prompt before its try block; in a browser the constructor throws when   *)
(* the key is undefined, and the README lists the key as optional.  Only   *)
(* ai.models.generateContent is awaited inside the try block.              *)
(***************************************************************************)
\* the variables that the advice panel leaves alone
notAdviceVars ==
    <<inputs, pc, usePrepayments, balance, month, schedule, standardSchedule,
      prepaySchedule, validationErrors, memoVars, storageVars, derivedVars>>

\* the button, disabled while loadingAdvice: setLoadingAdvice(true), then
\* getLoanAdvice runs up to its await, or throws before its try block
FetchAdvice ==
    /\ mounted
    /\ ~loadingAdvice
    /\ loadingAdvice' = TRUE
    /\ request' = IF apiKey = "missing" THEN "rejected" ELSE "pending"
    /\ UNCHANGED <<apiKey, aiAdvice, notAdviceVars>>

\* generateContent resolves: getLoanAdvice returns response.text and
\* fetchAdvice goes on after its await
ResolveAdvice ==
    /\ request = "pending"
    /\ \E text \in ResponseTexts : aiAdvice' = AdviceOrFallback(text)
    /\ loadingAdvice' = FALSE
    /\ request' = "none"
    /\ UNCHANGED <<apiKey, notAdviceVars>>

\* generateContent rejects: the catch block returns the fixed message and
\* fetchAdvice goes on after its await
RejectAdvice ==
    /\ request = "pending"
    /\ aiAdvice' = AdviceOrFallback(<<FailedToFetch>>)
    /\ loadingAdvice' = FALSE
    /\ request' = "none"
    /\ UNCHANGED <<apiKey, notAdviceVars>>

\* the App is mounted with the default scenario; the key is set or not
InitAdvice ==
    /\ EngineUnused
    /\ localStorage = NoItem
    /\ mounted = TRUE
    /\ storedValue = initialValue
    /\ lastSet = [set |-> FALSE, value |-> initialValue]
    /\ fresh = TRUE
    /\ tabs = NoTabs
    /\ apiKey \in {"set", "missing"}
    /\ request = "none"
    /\ loadingAdvice = FALSE
    /\ aiAdvice = <<>>

\* the user goes on editing the scenario while the advice is loading
NextAdvice ==
    \/ FetchAdvice \/ ResolveAdvice \/ RejectAdvice
    \/ HandleScenarioChange \/ HandleYearlyChange

\* the request to the text-generation service is eventually answered or fails
AdviceSpec ==
    InitAdvice /\ [][NextAdvice]_vars /\ WF_vars(ResolveAdvice \/ RejectAdvice)

\* aiAdvice is a non-empty string
HasAdvice == aiAdvice # <<>> /\ aiAdvice # <<"">>

\* C18: no error propagates out of getLoanAdvice, and every invocation of
\* fetchAdvice eventually sets loadingAdvice back to false and leaves aiAdvice
\* a non-empty string.
C18_AdviceAlwaysSettles ==
    /\ [](request # "rejected")
    /\ loadingAdvice ~> (~loadingAdvice /\ HasAdvice)

(***************************************************************************)
(* getSummary on loans of 25 months at rate 0 whose extra sources are      *)
(* negative, zero or positive, with frequencies below 1 and two years of   *)
(* yearly prepayments: the schedules run into a third year.                *)
(***************************************************************************)
ExtraInputs ==
    LoanInputs({R(6000, 1)}, {Zero}, {R(25, 12)}, ValidationAmounts,
               Frequencies \cup {-1, 12}, ValidationAmounts, {Zero},
               {<<>>, <<ExtraUnit>>, <<RNeg(ExtraUnit), ExtraUnit>>},
               Timings, {"reduce-tenure"})

InitExtra ==
    /\ inputs \in ExtraInputs
    /\ EngineIdle
    /\ AppInit

ExtraSpec == InitExtra /\ [][Next]_vars

\* what the extra payment of a row can be taken from: the opening balance
\* under "start" timing, what the installment leaves under "end" timing
Available(cfg, row) ==
    IF cfg.prepaymentTiming = "start" THEN row.beginningBalance
    ELSE RMax(Zero, RSub(row.beginningBalance, row.principalPaid))

\* the yearly contribution of period p: the entry of the year of p, if it has
\* one, in the first period of the year under "start" timing and in the last
\* under "end" timing
YearlyContribution(cfg, p) ==
    LET y == (p - 1) \div 12 + 1
        due == IF cfg.prepaymentTiming = "start" THEN p = 12 * (y - 1) + 1
               ELSE p = 12 * y
    IN  IF due /\ y \in DOMAIN cfg.yearlyPrepayments
        THEN RMax(Zero, cfg.yearlyPrepayments[y]) ELSE Zero

\* the lump sum of period p: none unless the frequency is 1 or more
LumpSumContribution(cfg, p) ==
    IF cfg.prepaymentFrequency <= 0 THEN Zero
    ELSE IF p % cfg.prepaymentFrequency = 0 THEN RMax(Zero, cfg.lumpsumAmount)
    ELSE Zero

\* C19: the extra requested in period p of a prepaid schedule is
\* max(0, monthlyExtra) + (max(0, lumpSum) if frequency > 0 and p mod frequency
\* = 0) + the yearly contribution, each source clamped on its own, a frequency
\* of 0 or less disabling the lump sum; the row records it, up to what is
\* left to pay.
C19_RequestedExtra ==
    usePrepayments =>
        \A row \in Rows(schedule) :
            row.lumpsum
                = RMin(Available(inputs, row),
                       RAdd(RAdd(RMax(Zero, inputs.monthlyExtraPayment),
                                 LumpSumContribution(inputs, row.month)),
                            YearlyContribution(inputs, row.month)))

\* a row that adds up all three sources: the monthly extra, the lump sum
\* of every 12th period and the entry of year 1 at the end of the year
C19_ThreeSourcesInOneRow ==
    /\ BothReturned
    /\ Len(inputs.yearlyPrepayments) = 1
    /\ inputs.prepaymentFrequency = 12
    /\ inputs.prepaymentTiming = "end"
    /\ Len(prepaySchedule) >= 13
    /\ RLt(Zero, inputs.monthlyExtraPayment) /\ RLt(Zero, inputs.lumpsumAmount)
    /\ prepaySchedule[11].lumpsum = inputs.monthlyExtraPayment
    /\ prepaySchedule[12].lumpsum
           = RAdd(RAdd(inputs.monthlyExtraPayment, inputs.lumpsumAmount),
                  inputs.yearlyPrepayments[1])
    /\ prepaySchedule[13].lumpsum = inputs.monthlyExtraPayment

\* a lump sum with a frequency of 0 or less that is never requested
C19_FrequencyDisablesLumpSum ==
    /\ BothReturned
    /\ inputs.prepaymentFrequency < 0
    /\ RLt(Zero, inputs.lumpsumAmount)
    /\ RLt(inputs.monthlyExtraPayment, Zero)
    /\ Len(prepaySchedule) = 25
    /\ \A row \in Rows(prepaySchedule) : row.lumpsum = Zero

\* no monthly extra and no lump sum: the yearly prepayments are the only source
OnlyYearly(cfg) ==
    /\ RLe(cfg.monthlyExtraPayment, Zero)
    /\ RLe(cfg.lumpsumAmount, Zero) \/ cfg.prepaymentFrequency <= 0

Requested(cfg, row) == ExtraPayment(cfg, TRUE, row.month)

\* C21: under "start" timing with prepayments active, a row whose requested
\* extra is > 0 records min(opening balance, requested extra) as applied, its
\* interest is (opening balance - applied extra) x monthly rate, and the
\* closing balance is what the principal part of the installment leaves of
\* the balance already reduced by the extra.
C21_ExtraBeforeAccrual ==
    usePrepayments /\ inputs.prepaymentTiming = "start" =>
        \A row \in Rows(schedule) :
            RLt(Zero, Requested(inputs, row)) =>
                /\ row.lumpsum = RMin(row.beginningBalance, Requested(inputs, row))
                /\ row.interest
                       = RMul(RSub(row.beginningBalance, row.lumpsum),
                              MonthlyRate(inputs.annualInterestRate))
                /\ row.endingBalance
                       = RMax(Zero, RSub(RSub(row.beginningBalance, row.lumpsum),
                                         row.principalPaid))

\* a "start" schedule at a compound rate: the first row applies the whole
\* requested extra and charges interest on less than the opening balance, the
\* last row applies only the balance that is left
C21_ReducedInterestThenClamp ==
    /\ BothReturned /\ inputs.prepaymentTiming = "start"
    /\ Len(prepaySchedule) >= 2
    /\ prepaySchedule[1].lumpsum = Requested(inputs, prepaySchedule[1])
    /\ RLt(Zero, prepaySchedule[1].lumpsum)
    /\ RLt(Zero, prepaySchedule[1].interest)
    /\ RLt(prepaySchedule[1].interest,
           RMul(prepaySchedule[1].beginningBalance,
                MonthlyRate(inputs.annualInterestRate)))
    /\ RLt(Last(prepaySchedule).lumpsum, Requested(inputs, Last(prepaySchedule)))
    /\ Last(prepaySchedule).lumpsum = Last(prepaySchedule).beginningBalance

\* C22: under "end" timing with prepayments active, every row's interest is
\* opening balance x monthly rate; a row whose requested extra is > 0 applies
\* min(max(0, opening balance - principal portion), requested extra) and
\* closes at the post-installment balance minus the applied extra; a row
\* whose requested extra is 0 applies nothing and closes at the opening
\* balance minus the principal portion.
C22_ExtraAfterInstallment ==
    usePrepayments /\ inputs.prepaymentTiming = "end" =>
        \A row \in Rows(schedule) :
            LET postInstallment ==
                    RMax(Zero, RSub(row.beginningBalance, row.principalPaid))
            IN  /\ row.interest
                       = RMul(row.beginningBalance,
                              MonthlyRate(inputs.annualInterestRate))
                /\ RLt(Zero, Requested(inputs, row)) =>
                       /\ row.lumpsum = RMin(postInstallment, Requested(inputs, row))
                       /\ row.endingBalance = RSub(postInstallment, row.lumpsum)
                /\ Requested(inputs, row) = Zero =>
                       /\ row.lumpsum = Zero
                       /\ row.endingBalance
                              = RSub(row.beginningBalance, row.principalPaid)

\* an "end" schedule at a compound rate whose first row has no extra and
\* reduces the balance by the principal portion only, and whose second row
\* applies the whole lump sum after the installment
C22_PlainRowThenLumpSum ==
    /\ BothReturned /\ inputs.prepaymentTiming = "end"
    /\ RLt(Zero, inputs.annualInterestRate)
    /\ Len(prepaySchedule) = 2
    /\ Requested(inputs, prepaySchedule[1]) = Zero
    /\ RLt(Zero, prepaySchedule[1].principalPaid)
    /\ RLt(Zero, prepaySchedule[2].interest)
    /\ RLt(Zero, prepaySchedule[2].lumpsum)
    /\ prepaySchedule[2].lumpsum = Requested(inputs, prepaySchedule[2])
    /\ RLt(Zero, prepaySchedule[2].endingBalance)

\* balanceAfterPrepay of a row of the running call, when the interest is
\* computed: the opening balance, less the extra under "start" timing
BalanceAtAccrual(row) ==
    IF usePrepayments /\ inputs.prepaymentTiming = "start"
    THEN RSub(row.beginningBalance, row.lumpsum) ELSE row.beginningBalance

C24_SummaryIsReduction ==
    BothReturned =>
        /\ summary.totalInterestStandard = TotalInterest(standardSchedule)
        /\ summary.totalInterestWithPrepayment = TotalInterest(prepaySchedule)
        /\ summary.totalAmountStandard
               = SumField(standardSchedule, "totalPaidThisMonth", 1,
                          Len(standardSchedule))
        /\ summary.totalAmountWithPrepayment
               = SumField(prepaySchedule, "totalPaidThisMonth", 1, Len(prepaySchedule))
        /\ summary.totalPrepaymentOutlay
               = SumField(prepaySchedule, "lumpsum", 1, Len(prepaySchedule))
        /\ summary.standardTenureMonths = Len(standardSchedule)
        /\ summary.newTenureMonths = Len(prepaySchedule)
        /\ summary.interestSaved
               = IF RLt(TotalInterest(prepaySchedule), TotalInterest(standardSchedule))
                 THEN RSub(TotalInterest(standardSchedule),
                           TotalInterest(prepaySchedule))
                 ELSE Zero
        /\ summary.tenureSavedMonths
               = IF Len(prepaySchedule) < Len(standardSchedule)
                 THEN Len(standardSchedule) - Len(prepaySchedule) ELSE 0
        /\ RLe(Zero, summary.interestSaved)
        /\ summary.tenureSavedMonths >= 0

\* a summary whose prepaid schedule, with an outlay, costs more interest than
\* the standard one: the interest saved is floored at 0, and the prepaid total
\* amount is the principal repaid plus that interest
C24_SavingsFlooredAtZero ==
    /\ BothReturned
    /\ RLt(TotalInterest(standardSchedule), TotalInterest(prepaySchedule))
    /\ Len(standardSchedule) = 2 /\ Len(prepaySchedule) = 2
    /\ RLt(Zero, summary.totalPrepaymentOutlay)
    /\ summary.interestSaved = Zero
    /\ summary.tenureSavedMonths = 0
    /\ RLt(summary.totalAmountStandard, summary.totalAmountWithPrepayment)

(***************************************************************************)
(* insight = getPrepaymentInsight(summary), for the summaries getSummary   *)
(* can return: the savings and the outlay are never negative.              *)
(***************************************************************************)
\* the months saved are drawn from 0 .. MaxMonthsSaved
MaxMonthsSaved == 24

InsightSummaries ==
    {[NoSummary EXCEPT !.interestSaved = saved, !.totalPrepaymentOutlay = outlay,
                       !.tenureSavedMonths = months,
                       !.standardTenureMonths = MaxMonthsSaved + 1,
                       !.newTenureMonths = MaxMonthsSaved + 1 - months] :
         saved \in {Zero, R(1, 3), R(30, 1), R(45, 1)},
         outlay \in {Zero, R(1, 100), R(20, 1), R(60, 1)},
         months \in 0 .. MaxMonthsSaved}

InitInsight ==
    /\ inputs \in {CHOOSE cfg \in InputSpace : TRUE}
    /\ EngineIdle
    /\ validationErrors = <<>>
    /\ call = "summary" /\ standardScheduleA = <<>> /\ prepayScheduleA = <<>>
    /\ localStorage = NoItem
    /\ mounted = FALSE
    /\ storedValue = initialValue
    /\ lastSet = [set |-> FALSE, value |-> initialValue]
    /\ fresh = FALSE
    /\ tabs = NoTabs
    /\ apiKey = "set" /\ request = "none" /\ loadingAdvice = FALSE /\ aiAdvice = <<>>
    /\ summary \in InsightSummaries
    /\ insight = NoInsight
    /\ cumulativeData = NoCumulativeData

\* const insight = useMemo(() => getPrepaymentInsight(summary), [summary])
MemoInsight ==
    /\ pc = "idle"
    /\ insight' = GetPrepaymentInsight(summary)
    /\ pc' = "insight"
    /\ UNCHANGED <<inputs, usePrepayments, balance, month, schedule,
                   standardSchedule, prepaySchedule, validationErrors, memoVars,
                   storageVars, adviceVars, summary, cumulativeData>>

NextInsight == MemoInsight

InsightSpec == InitInsight /\ [][NextInsight]_vars

\* C25: the insight never holds the result of a division by zero: its
\* return-on-outlay is a number, 0 when the outlay is 0 and otherwise the
\* number that, times the outlay, is 100 x interestSaved; its annualised
\* return is a number or a root, and 0 whenever the outlay is 0 or no month is
\* saved; outlay, interestSaved and tenureSavedMonths are those of the summary.
C25_InsightDefined ==
    pc = "insight" =>
        /\ insight.roi.kind = "number"
        /\ insight.annualisedReturn.kind \in {"number", "root"}
        /\ summary.totalPrepaymentOutlay = Zero => insight.roi = JsNumber(Zero)
        /\ summary.totalPrepaymentOutlay # Zero =>
               RMul(insight.roi.value, summary.totalPrepaymentOutlay)
                   = RMul(summary.interestSaved, R(100, 1))
        /\ summary.totalPrepaymentOutlay = Zero \/ summary.tenureSavedMonths = 0
               => insight.annualisedReturn = ZeroReturn
        /\ insight.totalPrepaymentOutlay = summary.totalPrepaymentOutlay
        /\ insight.interestSaved = summary.interestSaved
        /\ insight.tenureSavedMonths = summary.tenureSavedMonths

\* an insight for interest and months saved without any outlay, as a custom
\* EMI above the baseline one gives: both returns are 0
C25_SavingsWithoutOutlay ==
    /\ pc = "insight"
    /\ summary.totalPrepaymentOutlay = Zero
    /\ RLt(Zero, summary.interestSaved)
    /\ summary.tenureSavedMonths > 12
    /\ insight.roi = JsNumber(Zero)
    /\ insight.annualisedReturn = ZeroReturn
    /\ insight.interestSaved = summary.interestSaved

(***************************************************************************)
(* The cumulative interest chart of a render: after the schedules of lines *)
(* 153-154, cumulativeData = getCumulativeInterestData(standardSchedule,   *)
(* prepayScheduleA).  The loans run for up to 25 months at rate 0 and for  *)
(* 12 or 13 months at a monthly rate of 1, where every power is whole.     *)
(***************************************************************************)
\* an annual rate of 1200%: a monthly rate of 1
ChartRate == R(1200, 1)

ChartInputs ==
    LoanInputs({RMul(R(k, 1), PrincipalUnit) : k \in 0 .. MaxPrincipal}, {Zero},
               {R(1, 5), R(2, 1), R(25, 12)}, ExtraAmounts, {0, 12}, ExtraAmounts,
               {Zero}, {<<>>}, Timings, {"reduce-tenure"})
    \cup LoanInputs({RMul(R(k, 1), PrincipalUnit) : k \in 1 .. MaxPrincipal},
                    {ChartRate}, {One, R(13, 12)}, ExtraAmounts, {0, 12},
                    ExtraAmounts, {Zero}, {<<>>}, Timings, {"reduce-tenure"})

InitChart ==
    /\ inputs \in ChartInputs
    /\ EngineIdle
    /\ AppInit

\* const cumulativeData = useMemo(() => getCumulativeInterestData(..), ..);
\* yearlyGranularity is true by default and can be passed as false
MemoCumulative ==
    /\ pc = "rendered"
    /\ \E yearlyGranularity \in BOOLEAN :
           cumulativeData'
               = [yearlyGranularity |-> yearlyGranularity,
                  points |-> GetCumulativeInterestData(standardScheduleA,
                                                       prepayScheduleA,
                                                       yearlyGranularity)]
    /\ pc' = "charted"
    /\ UNCHANGED <<inputs, usePrepayments, balance, month, schedule,
                   standardSchedule, prepaySchedule, validationErrors, memoVars,
                   storageVars, adviceVars, summary, insight>>

NextChart ==
    \/ CallStandard \/ LoopStep \/ ReturnStandard \/ ReturnPrepay
    \/ MemoStandard \/ MemoPrepay \/ MemoDone \/ MemoCumulative

ChartSpec == InitChart /\ [][NextChart]_vars

\* the longer of the two lengths
ChartLength == IMax(Len(standardScheduleA), Len(prepayScheduleA))

\* the interest of rows 1 .. p of s, or of all of s when it is shorter
InterestUpTo(s, p) == SumField(s, "interest", 1, IMin(p, Len(s)))

\* C26: with yearlyGranularity false the points are those of periods 1 .. L
\* in order, L the longer length; with yearlyGranularity true they are, in
\* increasing order and each once, the periods of 1 .. L that are multiples
\* of 12 and the period L; the two totals of the point of period p are the
\* rounded sums of the interest of the rows up to p of each schedule, a
\* schedule that ends before p contributing nothing after its end.
C26_CumulativePoints ==
    pc = "charted" =>
        LET points == cumulativeData.points
            periods == {points[k].month : k \in DOMAIN points}
        IN  /\ \A k \in 1 .. Len(points) - 1 : points[k].month < points[k + 1].month
            /\ ~cumulativeData.yearlyGranularity =>
                   /\ Len(points) = ChartLength
                   /\ \A k \in DOMAIN points : points[k].month = k
            /\ cumulativeData.yearlyGranularity =>
                   periods = {p \in 1 .. ChartLength : p % 12 = 0 \/ p = ChartLength}
            /\ \A k \in DOMAIN points :
                   /\ points[k].standardCumInterest
                          = RRound(InterestUpTo(standardScheduleA, points[k].month))
                   /\ points[k].prepaidCumInterest
                          = RRound(InterestUpTo(prepayScheduleA, points[k].month))
                   /\ points[k].year = RCeil(R(points[k].month, 12))

\* a yearly chart of a 12-period standard schedule and a shorter prepaid one:
\* the single point of period 12, whose totals were rounded and whose prepaid
\* total stopped growing when the prepaid schedule ended
C26_OnePointForTwelvePeriods ==
    /\ pc = "charted" /\ cumulativeData.yearlyGranularity
    /\ Len(standardScheduleA) = 12
    /\ Len(prepayScheduleA) \in 2 .. 11
    /\ Len(cumulativeData.points) = 1
    /\ cumulativeData.points[1].month = 12
    /\ ~IsWhole(TotalInterest(standardScheduleA))
    /\ cumulativeData.points[1].standardCumInterest
           = RRound(TotalInterest(standardScheduleA))
    /\ cumulativeData.points[1].prepaidCumInterest
           = RRound(TotalInterest(prepayScheduleA))
    /\ 0 < cumulativeData.points[1].prepaidCumInterest
    /\ cumulativeData.points[1].prepaidCumInterest
           < cumulativeData.points[1].standardCumInterest

(***************************************************************************)
(* Two tabs with the App open on the same origin, each with its own        *)
(* instance of useLocalStorage('loanpro-a', ..) over the one shared        *)
(* window.localStorage.  A setItem that changes the item queues a storage  *)
(* event in every other tab; a tab handles its events one at a time, in    *)
(* the order they were queued, between its own handlers.                   *)
(***************************************************************************)
\* at most MaxPending storage events wait in a tab
MaxPending == 2

\* setValue in tab t: the item is written, the other tabs are notified when
\* it changed, and the state of the hook of t becomes nextValue
TabSetValue(t, nextValue) ==
    /\ \A u \in Tabs \ {t} : Len(tabs[u].pending) < MaxPending
    /\ localStorage' = JsonItem(nextValue)
    /\ tabs' = [u \in Tabs |->
                    IF u = t THEN [tabs[u] EXCEPT !.storedValue = nextValue]
                    ELSE IF JsonItem(nextValue) # localStorage
                    THEN [tabs[u] EXCEPT
                              !.pending = Append(@, StorageEvent(Key,
                                                                 JsonItem(nextValue)))]
                    ELSE tabs[u]]
    /\ UNCHANGED <<mounted, storedValue, lastSet, fresh, notStorageVars>>

\* handleScenarioAChange in a tab: the timing select or the lump sum field
TabScenarioChange ==
    \E t \in Tabs :
        \/ \E value \in Timings :
               TabSetValue(t, [tabs[t].storedValue EXCEPT !.prepaymentTiming = value])
        \/ \E numValue \in ParsedFloats :
               TabSetValue(t, [tabs[t].storedValue EXCEPT
                                   !.lumpsumAmount = NumberOrZero(numValue)])

\* a tab writes the item of scenario B: the other tabs get the event of that key
TabOtherKeyChange ==
    \E t \in Tabs :
        /\ \A u \in Tabs \ {t} : Len(tabs[u].pending) < MaxPending
        /\ tabs' = [u \in Tabs |->
                        IF u = t THEN tabs[u]
                        ELSE [tabs[u] EXCEPT
                                  !.pending = Append(@, StorageEvent(OtherKey,
                                                         JsonItem(initialValue)))]]
        /\ UNCHANGED <<localStorage, mounted, storedValue, lastSet, fresh,
                       notStorageVars>>

\* a tab runs handleStorage for the event at the head of its queue
HandleStorage ==
    \E t \in Tabs :
        /\ tabs[t].pending # <<>>
        /\ tabs' = [tabs EXCEPT
                        ![t] = [storedValue |->
                                    HandleStorageValue(tabs[t].storedValue,
                                                       Head(tabs[t].pending)),
                                pending |-> Tail(tabs[t].pending)]]
        /\ UNCHANGED <<localStorage, mounted, storedValue, lastSet, fresh,
                       notStorageVars>>

\* both tabs are open and have read the item, or found none
InitTabs ==
    /\ EngineUnused
    /\ localStorage \in {NoItem, JsonItem(initialValue)}
    /\ mounted = TRUE
    /\ storedValue = initialValue
    /\ lastSet = [set |-> FALSE, value |-> initialValue]
    /\ fresh = TRUE
    /\ tabs = [t \in Tabs |-> [storedValue |-> MountValue(localStorage),
                                pending |-> <<>>]]
    /\ apiKey = "set" /\ request = "none" /\ loadingAdvice = FALSE /\ aiAdvice = <<>>

NextTabs == TabScenarioChange \/ TabOtherKeyChange \/ HandleStorage

\* every queued storage event is eventually handled
TabsSpec == InitTabs /\ [][NextTabs]_vars /\ WF_vars(HandleStorage)

\* no storage event is waiting in any tab
AllDelivered == \A t \in Tabs : tabs[t].pending = <<>>

\* C27: once every pending storage event has been delivered, every tab
\* holds, as the state of its hook, the value last written to the storage.
C27_TabsAgreeWhenDelivered ==
    localStorage.exists /\ AllDelivered
        => \A t \in Tabs : JsonItem(tabs[t].storedValue) = localStorage

\* the part of C27 that holds: handling a storage event never writes to the
\* storage and queues no event, so the tabs cannot answer one another for ever
C27_HandlerNeverWritesBack ==
    [][(\E t \in Tabs : Len(tabs'[t].pending) < Len(tabs[t].pending))
           => /\ localStorage' = localStorage
              /\ \A u \in Tabs : Len(tabs'[u].pending) <= Len(tabs[u].pending)]_vars

\* the two tabs have handled every event and hold different values
C27_TabsDiverged ==
    /\ AllDelivered
    /\ \E t, u \in Tabs :
           /\ JsonItem(tabs[t].storedValue) = localStorage
           /\ tabs[u].storedValue # tabs[t].storedValue

LongTenures == {R(50, 1), R(51, 1)}

CapInputs ==
    LoanInputs({PrincipalUnit}, {Zero}, LongTenures, {Zero}, {0}, {Zero},
               {Zero, R(1, 100)}, {<<>>}, {"start"}, Modes)
    \cup LoanInputs({RMul(R(k, 1), PrincipalUnit) : k \in 1 .. MaxPrincipal},
                    {Zero}, SimpleTenures, ExtraAmounts, {0, 1}, {Zero},
                    CustomEmis, YearlySequences, Timings, Modes)
    \cup LoanInputs({RMul(R(k, 1), PrincipalUnit) : k \in 1 .. MaxPrincipal},
                    {CompoundRate}, CompoundTenures, ExtraAmounts, {0, 1}, {Zero},
                    CustomEmis, YearlySequences, Timings, Modes)

InitCap ==
    /\ inputs \in CapInputs
    /\ EngineIdle
    /\ AppInit

CapSpec == InitCap /\ [][Next]_vars

\* C29: whenever round(tenureYears x 12) >= 1, a schedule of either call has
\* at most min(600, round(tenureYears x 12)) rows, with a custom EMI or
\* without; the rows are numbered 1, 2, .. without a gap and the year of period
\* p is ceil(p / 12).
C29_TenureCap ==
    /\ TotalMonths(inputs) >= 1 =>
           /\ Len(schedule) <= IMin(SafetyCapMonths, TotalMonths(inputs))
           /\ Len(standardSchedule) <= IMin(SafetyCapMonths, TotalMonths(inputs))
           /\ Len(prepaySchedule) <= IMin(SafetyCapMonths, TotalMonths(inputs))
    /\ \A i \in 1 .. Len(schedule) :
           /\ schedule[i].month = i
           /\ schedule[i].year = (i + 11) \div 12

\* a prepaid schedule of a 612-month loan with a custom EMI too small to repay
\* it: it stops at the 600th row, in year 50, with a balance left
C29_StoppedAtSafetyCap ==
    /\ BothReturned
    /\ TotalMonths(inputs) > SafetyCapMonths
    /\ RLt(Zero, inputs.customEmi)
    /\ Len(prepaySchedule) = SafetyCapMonths
    /\ Last(prepaySchedule).month = SafetyCapMonths
    /\ Last(prepaySchedule).year * 12 = SafetyCapMonths
    /\ RLt(Epsilon, Last(prepaySchedule).endingBalance)

\* C30: for every configuration that validateInputs accepts with no warnings,
\* a custom EMI between the first month's interest and the baseline
\* installment included, the last row of the prepaid schedule has closing
\* balance <= 0.01.
C30_ValidPrepaidRepaid ==
    BothReturned /\ Valid(inputs) /\ prepaySchedule # <<>>
        => RLe(Last(prepaySchedule).endingBalance, Epsilon)

\* a configuration accepted without warnings, of a whole number of months,
\* whose custom EMI is above the first month's interest and below the baseline
\* installment: without any extra payment the prepaid schedule stops at the
\* tenure with a balance left
C30_AcceptedCustomEmiLeavesBalance ==
    /\ BothReturned /\ Valid(inputs) /\ WholeMonthTenure(inputs)
    /\ ~HasPositiveExtra(inputs)
    /\ RLt(RMul(inputs.principal, MonthlyRate(inputs.annualInterestRate)),
           inputs.customEmi)
    /\ RLt(inputs.customEmi, StandardEmi(inputs))
    /\ Len(prepaySchedule) = TotalMonths(inputs)
    /\ RLt(Epsilon, Last(prepaySchedule).endingBalance)
    /\ Last(standardSchedule).endingBalance = Zero

====
